---- MODULE Spec2Model ----
(***************************************************************************)
(* Wheel Strategy Screener (src/app.py, src/utils.py).                     *)
(*                                                                         *)
(* Units.  Prices (strike, bid, ask, mid, breakeven, capital_required,     *)
(* min_bid, max_capital) are integers in cents; quotes are even numbers of *)
(* cents so that mid = (bid + ask) / 2 is exact.  Deltas are integers in   *)
(* hundredths (-30 is -0.30).  Dates are day numbers.  Time is in tenths   *)
(* of a second.  The two yields are pandas float64 values: they are kept   *)
(* as fractions [n, d] with d >= 0, where d = 0 encodes what float         *)
(* division by zero gives: n = 1 is +inf, n = -1 is -inf, n = 0 is NaN.    *)
(***************************************************************************)
EXTENDS Integers, Sequences, FiniteSets, TLC

VARIABLES
    pc,             \* position of the script: idle / loop / done / aborted / raw / metrics / filtered
    opt_type,       \* "put" or "call" (radio widget)
    single_ticker,  \* text input, stripped and upper-cased; "" when left empty
    max_tickers,    \* slider
    user_settings,  \* the six filter thresholds
    sort_by,        \* column chosen in the "Sort by" selectbox
    idx,            \* number of loop iterations completed
    results,        \* list of filtered frames, one per ticker that returned data
    fetched,        \* log of fetch_options calls: [symbol, at]
    clock,          \* elapsed time, tenths of a second
    warnings,       \* symbols for which fetch_options emitted st.warning
    captions,       \* symbols for which the loop emitted the "No option data" caption
    outcome,        \* what the run finally showed
    table,          \* the dataframe handed to st.dataframe
    analysis,       \* the rows given an expander with PoP, EV and payoff chart
    raw_df,         \* frame handed to calculate_metrics
    processed,      \* frame returned by calculate_metrics
    filtered        \* frame returned by apply_filters

vars == <<pc, opt_type, single_ticker, max_tickers, user_settings, sort_by, idx,
          results, fetched, clock, warnings, captions, outcome, table, analysis,
          raw_df, processed, filtered>>

(***************************************************************************)
(* Bounds of the model.                                                    *)
(***************************************************************************)
NumTickers == 6     \* size of the ticker universe (rows of the csv)
MaxRows == 2        \* longest frame drawn for the function-level specification

(***************************************************************************)
(* Program constants.                                                      *)
(***************************************************************************)
SLEEP == 12                 \* time.sleep(1.2)
CONTRACT_MULTIPLIER == 100  \* strike * 100
DAYS_PER_YEAR == 365
TOP_N == 5                  \* df_final.head(5)
MIN_MAX_TICKERS == 5        \* lower end of the "Number of tickers to scan" slider
today == 1000               \* pd.Timestamp(datetime.utcnow().date()), as a day number

(***************************************************************************)
(* float64 arithmetic as pandas performs it (no exception on a zero        *)
(* divisor: x/0 is +-inf, 0/0 is NaN).                                     *)
(***************************************************************************)
Sign(x) == IF x > 0 THEN 1 ELSE IF x < 0 THEN -1 ELSE 0

FromInt(x) == [n |-> x, d |-> 1]

NaN == [n |-> 0, d |-> 0]

IsNaN(x) == x.d = 0 /\ x.n = 0

\* a / b for integers a, b
FDiv(a, b) ==
    IF b = 0 THEN [n |-> Sign(a), d |-> 0]
    ELSE IF b < 0 THEN [n |-> -a, d |-> -b]
    ELSE [n |-> a, d |-> b]

\* x * y for float values
FMul(x, y) ==
    IF x.d = 0 \/ y.d = 0 THEN [n |-> Sign(x.n) * Sign(y.n), d |-> 0]
    ELSE [n |-> x.n * y.n, d |-> x.d * y.d]

\* x < y for float values, neither NaN
FLess(x, y) ==
    IF x.d = 0 /\ y.d = 0 THEN x.n < y.n
    ELSE x.n * y.d < y.n * x.d

FLeq(x, y) == ~FLess(y, x)

Abs(x) == IF x < 0 THEN -x ELSE x

(***************************************************************************)
(* The ticker universe: load_tickers() returns the 'code' column.          *)
(***************************************************************************)
Codes == <<"AAA", "BBB", "CCC", "DDD", "EEE", "FFF", "GGG", "HHH", "III">>

tickers == SubSeq(Codes, 1, NumTickers)

InUniverse(s) == \E i \in 1..Len(tickers) : tickers[i] = s

(***************************************************************************)
(* calculate_metrics(df): the derived columns, row by row.  The breakeven  *)
(* branch is decided once per frame, by the type of the frame's first row. *)
(***************************************************************************)
Metrics(r, put) ==
    LET DTE == r.exp_date - today
        mid == (r.bid + r.ask) \div 2
        capital_required == r.strike * CONTRACT_MULTIPLIER
    IN  r @@ [DTE |-> DTE,
              mid |-> mid,
              capital_required |-> capital_required,
              breakeven |-> IF put THEN r.strike - mid ELSE r.strike + mid,
              annualized_yield |-> FMul(FDiv(mid, r.strike), FDiv(DAYS_PER_YEAR, DTE)),
              yield_per_dollar |-> FDiv(mid, capital_required)]

calculate_metrics(df) ==
    LET put == df[1].type = "put"
    IN  [i \in 1..Len(df) |-> Metrics(df[i], put)]

(***************************************************************************)
(* apply_filters(df, user_settings): the boolean mask of lines 55-60.      *)
(***************************************************************************)
Mask_gt(r, s) ==
    /\ r.mid > s.min_bid
    /\ r.DTE >= s.min_dte
    /\ r.DTE <= s.max_dte
    /\ Abs(r.delta) >= s.min_delta
    /\ Abs(r.delta) <= s.max_delta
    /\ r.capital_required <= s.max_capital

Mask(r, s) ==
    /\ r.mid >= s.min_bid
    /\ r.DTE >= s.min_dte
    /\ r.DTE <= s.max_dte
    /\ Abs(r.delta) >= s.min_delta
    /\ Abs(r.delta) <= s.max_delta
    /\ r.capital_required <= s.max_capital

apply_filters(df, s) == SelectSeq(df, LAMBDA r : Mask(r, s))

(***************************************************************************)
(* utils.py: calculate_pop and calculate_ev.  With delta in hundredths,    *)
(* pop is in hundredths and round(.., 4) changes nothing.  With prices in  *)
(* cents, pop * max_gain - (1 - pop) * max_loss is a whole number of cents *)
(* (max_gain and max_loss are both multiples of 100), so round(ev, 2)      *)
(* changes nothing either.                                                 *)
(***************************************************************************)
calculate_pop(delta) == 100 - Abs(delta)

calculate_ev(premium, capital, pop) ==
    LET max_loss == capital - premium * 100
        max_gain == premium * 100
    IN  (pop * max_gain - (100 - pop) * max_loss) \div 100

(***************************************************************************)
(* Widget values.  Each record of Settings lies inside the ranges of the   *)
(* sidebar widgets (lines 76-83): min_bid is unbounded, min_delta is in    *)
(* 5..50, max_delta in 20..70, min_dte in 5..30, max_dte in 15..90 and     *)
(* max_capital is >= 0.                                                    *)
(***************************************************************************)
DefaultSettings ==
    [min_bid |-> 30, min_delta |-> 15, max_delta |-> 40,
     min_dte |-> 10, max_dte |-> 60, max_capital |-> 100000]

StrictSettings ==
    [min_bid |-> 100, min_delta |-> 30, max_delta |-> 40,
     min_dte |-> 10, max_dte |-> 60, max_capital |-> 100000]

LooseSettings ==
    [min_bid |-> 0, min_delta |-> 5, max_delta |-> 70,
     min_dte |-> 5, max_dte |-> 90, max_capital |-> 10000000]

Settings == {DefaultSettings, StrictSettings, LooseSettings}

OptTypes == {"put", "call"}

\* values of the sort_options dictionary
sort_options ==
    {"annualized_yield", "yield_per_dollar", "breakeven", "DTE",
     "capital_required", "oi", "volume", "delta"}

\* two positions of the slider, which lets the user pick 5..50
MaxTickerChoices == {MIN_MAX_TICKERS, MIN_MAX_TICKERS + 1}

\* the text input: empty, a member of the universe, a symbol outside it
SingleTickerChoices == {"", tickers[2], "ZZZ"}

(***************************************************************************)
(* Records of the upstream API, as pd.json_normalize lays them out         *)
(* (attributes.<field> columns), before fetch_options adds 'symbol'.       *)
(***************************************************************************)
Raw(contract, type, exp, strike, bid, ask, delta, oi, volume) ==
    [contract |-> contract, type |-> type, exp_date |-> exp, strike |-> strike,
     bid |-> bid, ask |-> ask, delta |-> delta, volatility |-> 45,
     open_interest |-> oi, volume |-> volume]

\* delta is negative for puts, positive for calls
D(type, a) == IF type = "put" THEN -a ELSE a

\* two contracts that pass the default filters
ChainA(t) ==
    << Raw("c1", t, today + 20, 900, 40, 60, D(t, 30), 100, 10),
       Raw("c2", t, today + 30, 800, 50, 70, D(t, 25), 50, 70) >>

\* a thin quote, a zero strike and an out-of-domain delta
ChainB(t) ==
    << Raw("c3", t, today + 20, 900, 10, 30, D(t, 30), 20, 5),
       Raw("c4", t, today + 20, 0, 40, 60, D(t, 30), 30, 40),
       Raw("c5", t, today + 20, 900, 40, 60, D(t, 150), 60, 20) >>

\* the API is asked for filter[type] = opt_type
Chains(t) == {ChainA(t), ChainB(t)}

\* the ways the try block of fetch_options can raise
FetchErrors == {"request", "status", "payload"}

\* df['symbol'] = symbol
WithSymbol(df, symbol) == [i \in 1..Len(df) |-> df[i] @@ [symbol |-> symbol]]

(***************************************************************************)
(* Rows drawn for the function-level specification: the boundaries of the  *)
(* default thresholds, expired contracts, a zero strike, a bad delta.      *)
(***************************************************************************)
RowPool ==
    { Raw("p1", "put", today + 20, 900, 40, 60, -30, 100, 10),
      Raw("p2", "call", today + 20, 5000, 180, 220, 30, 100, 10),
      Raw("p3", "put", today + 10, 1000, 20, 40, -15, 100, 10),
      Raw("p4", "put", today + 60, 1000, 40, 60, -40, 100, 10),
      Raw("p5", "put", today + 61, 900, 40, 60, -30, 100, 10),
      Raw("p6", "put", today + 20, 1001, 40, 60, -30, 100, 10),
      Raw("p7", "put", today + 20, 900, 18, 40, -30, 100, 10),
      Raw("p8", "call", today + 20, 900, 40, 60, 41, 100, 10),
      Raw("p9", "put", today + 20, 900, 40, 60, -14, 100, 10),
      Raw("p10", "put", today + 9, 900, 40, 60, -30, 100, 10),
      Raw("p11", "put", today, 900, 40, 60, -30, 100, 10),
      Raw("p12", "call", today - 3, 900, 40, 60, 30, 100, 10),
      Raw("p13", "put", today + 20, 0, 40, 60, -30, 100, 10),
      Raw("p14", "put", today + 20, 900, 40, 60, -150, 100, 10),
      Raw("p15", "put", today + 20, 5000, 180, 220, -30, 100, 10) }

RECURSIVE Frames(_)
Frames(n) ==
    IF n = 0 THEN {<<>>}
    ELSE LET shorter == Frames(n - 1)
         IN  shorter \cup {Append(f, r) : f \in {g \in shorter : Len(g) = n - 1}, r \in RowPool}

(***************************************************************************)
(* The run button handler, lines 112-165.                                  *)
(***************************************************************************)
Min(a, b) == IF a < b THEN a ELSE b

\* a mutation: the slider value is ignored
symbols_to_scan_all(single, n) ==
    IF single # "" THEN <<single>> ELSE tickers

\* [single_ticker] if single_ticker else tickers[:max_tickers]
symbols_to_scan(single, n) ==
    IF single # "" THEN <<single>> ELSE SubSeq(tickers, 1, Min(n, Len(tickers)))

ScanList == symbols_to_scan(single_ticker, max_tickers)

\* a mutation: no pause between requests
time_sleep_skipped(t) == t

\* time.sleep(1.2)
time_sleep(t) == t + SLEEP

\* pd.concat(results).reset_index(drop=True)
RECURSIVE concat(_)
concat(frames) ==
    IF frames = <<>> THEN <<>> ELSE Head(frames) \o concat(Tail(frames))

\* rename(columns=...) followed by the selection of display_cols
DisplayRow(r) ==
    [symbol |-> r.symbol, contract |-> r.contract, strike |-> r.strike,
     mid |-> r.mid, breakeven |-> r.breakeven, DTE |-> r.DTE, delta |-> r.delta,
     iv |-> r.volatility, oi |-> r.open_interest, volume |-> r.volume,
     capital_required |-> r.capital_required,
     annualized_yield |-> r.annualized_yield,
     yield_per_dollar |-> r.yield_per_dollar]

DisplayFrame(df) == [i \in 1..Len(df) |-> DisplayRow(df[i])]

\* the value of column 'by' as a float
Key(r, by) ==
    IF by \in {"annualized_yield", "yield_per_dollar"} THEN r[by] ELSE FromInt(r[by])

\* a mutation: every column sorts ascending
ascending_always(by) == TRUE

\* ascending = sort_by in ['breakeven', 'DTE', 'capital_required']
ascending(by) == by \in {"breakeven", "DTE", "capital_required"}

(***************************************************************************)
(* DataFrame.sort_values(by, ascending): rows whose key is NaN go last     *)
(* (na_position='last'); the others are ordered by key.  Frames here are   *)
(* short, and on short arrays the default sort is an insertion sort, so    *)
(* rows with equal keys keep their order.                                  *)
(***************************************************************************)
Precedes(a, b, by, asc) ==
    IF asc THEN FLess(Key(a, by), Key(b, by)) ELSE FLess(Key(b, by), Key(a, by))

RECURSIVE InsertRow(_, _, _, _)
InsertRow(r, s, by, asc) ==
    IF s = <<>> THEN <<r>>
    ELSE IF Precedes(r, Head(s), by, asc) THEN <<r>> \o s
    ELSE <<Head(s)>> \o InsertRow(r, Tail(s), by, asc)

RECURSIVE SortRows(_, _, _)
SortRows(df, by, asc) ==
    IF df = <<>> THEN <<>>
    ELSE InsertRow(df[Len(df)], SortRows(SubSeq(df, 1, Len(df) - 1), by, asc), by, asc)

sort_values(df, by, asc) ==
    SortRows(SelectSeq(df, LAMBDA r : ~IsNaN(Key(r, by))), by, asc)
        \o SelectSeq(df, LAMBDA r : IsNaN(Key(r, by)))

\* df.head(n)
head(df, n) == SubSeq(df, 1, Min(n, Len(df)))

\* one expander of the trade analysis: the row, its PoP and its EV
Analyse(row) ==
    LET pop == calculate_pop(row.delta)
    IN  [symbol |-> row.symbol, contract |-> row.contract, strike |-> row.strike,
         mid |-> row.mid, pop |-> pop,
         ev |-> calculate_ev(row.mid, row.capital_required, pop)]

TradeAnalysis(df_final) ==
    LET top == head(df_final, TOP_N)
    IN  [i \in 1..Len(top) |-> Analyse(top[i])]

(***************************************************************************)
(* The screening run as a state machine.                                   *)
(***************************************************************************)
Init ==
    /\ pc = "idle"
    /\ opt_type = "put"
    /\ single_ticker = ""
    /\ max_tickers = MIN_MAX_TICKERS
    /\ user_settings = DefaultSettings
    /\ sort_by = "annualized_yield"
    /\ idx = 0
    /\ results = <<>>
    /\ fetched = <<>>
    /\ clock = 0
    /\ warnings = <<>>
    /\ captions = <<>>
    /\ outcome = "none"
    /\ table = <<>>
    /\ analysis = <<>>
    /\ raw_df = <<>>
    /\ processed = <<>>
    /\ filtered = <<>>

\* the button is pressed with the widgets holding some values (lines 112-118)
RunButton ==
    /\ pc = "idle"
    /\ opt_type' \in OptTypes
    /\ single_ticker' \in SingleTickerChoices
    /\ max_tickers' \in MaxTickerChoices
    /\ user_settings' \in Settings
    /\ sort_by' \in sort_options
    /\ IF single_ticker' # "" /\ ~InUniverse(single_ticker')
       THEN pc' = "done" /\ outcome' = "not_in_universe"
       ELSE pc' = "loop" /\ outcome' = "none"
    /\ UNCHANGED <<idx, results, fetched, clock, warnings, captions, table,
                   analysis, raw_df, processed, filtered>>

InLoop == pc = "loop" /\ idx < Len(ScanList)

Fetch == Append(fetched, [symbol |-> ScanList[idx + 1], at |-> clock])

\* fetch_options raises inside its try block: warning, empty frame, caption, sleep
IterFetchRaises ==
    /\ InLoop
    /\ \E e \in FetchErrors :
        /\ fetched' = Fetch
        /\ warnings' = Append(warnings, ScanList[idx + 1])
        /\ captions' = Append(captions, ScanList[idx + 1])
    /\ clock' = time_sleep(clock)
    /\ idx' = idx + 1
    /\ UNCHANGED <<pc, opt_type, single_ticker, max_tickers, user_settings, sort_by,
                   results, outcome, table, analysis, raw_df, processed, filtered>>

\* the API answers with no contracts: empty frame, caption, sleep
IterNoData ==
    /\ InLoop
    /\ fetched' = Fetch
    /\ captions' = Append(captions, ScanList[idx + 1])
    /\ clock' = time_sleep(clock)
    /\ idx' = idx + 1
    /\ UNCHANGED <<pc, opt_type, single_ticker, max_tickers, user_settings, sort_by,
                   results, warnings, outcome, table, analysis, raw_df, processed,
                   filtered>>

\* the API answers with contracts: metrics, filters, append, sleep
IterData ==
    /\ InLoop
    /\ \E chain \in Chains(opt_type) :
        LET raw == WithSymbol(chain, ScanList[idx + 1])
        IN  results' = Append(results, apply_filters(calculate_metrics(raw), user_settings))
    /\ fetched' = Fetch
    /\ clock' = time_sleep(clock)
    /\ idx' = idx + 1
    /\ UNCHANGED <<pc, opt_type, single_ticker, max_tickers, user_settings, sort_by,
                   warnings, captions, outcome, table, analysis, raw_df, processed,
                   filtered>>

\* the API answers with records that lack the attributes.* fields: the frame is
\* not empty, calculate_metrics raises KeyError and nothing catches it
IterMalformedRows ==
    /\ InLoop
    /\ fetched' = Fetch
    /\ pc' = "aborted"
    /\ outcome' = "exception"
    /\ UNCHANGED <<opt_type, single_ticker, max_tickers, user_settings, sort_by, idx,
                   results, clock, warnings, captions, table, analysis, raw_df,
                   processed, filtered>>

LoopOver == pc = "loop" /\ idx = Len(ScanList)

\* if results: (lines 130-163)
ShowResults ==
    /\ LoopOver
    /\ results # <<>>
    /\ LET df_final == concat(results)
       IN  /\ table' = sort_values(DisplayFrame(df_final), sort_by, ascending(sort_by))
           /\ analysis' = TradeAnalysis(df_final)
    /\ outcome' = "table"
    /\ pc' = "done"
    /\ UNCHANGED <<opt_type, single_ticker, max_tickers, user_settings, sort_by, idx,
                   results, fetched, clock, warnings, captions, raw_df, processed,
                   filtered>>

\* else: (lines 164-165)
NoCandidates ==
    /\ LoopOver
    /\ results = <<>>
    /\ outcome' = "no_candidates"
    /\ pc' = "done"
    /\ UNCHANGED <<opt_type, single_ticker, max_tickers, user_settings, sort_by, idx,
                   results, fetched, clock, warnings, captions, table, analysis,
                   raw_df, processed, filtered>>

Next ==
    \/ RunButton
    \/ IterFetchRaises
    \/ IterNoData
    \/ IterData
    \/ IterMalformedRows
    \/ ShowResults
    \/ NoCandidates

Spec == Init /\ [][Next]_vars

(***************************************************************************)
(* calculate_metrics and apply_filters as functions of their arguments.    *)
(***************************************************************************)
InitFn ==
    /\ pc = "raw"
    /\ raw_df \in Frames(MaxRows)
    /\ user_settings \in Settings
    /\ opt_type = "put"
    /\ single_ticker = ""
    /\ max_tickers = MIN_MAX_TICKERS
    /\ sort_by = "annualized_yield"
    /\ idx = 0
    /\ results = <<>>
    /\ fetched = <<>>
    /\ clock = 0
    /\ warnings = <<>>
    /\ captions = <<>>
    /\ outcome = "none"
    /\ table = <<>>
    /\ analysis = <<>>
    /\ processed = <<>>
    /\ filtered = <<>>

\* processed = calculate_metrics(raw_df); an empty frame never reaches it (line 122)
CalcMetrics ==
    /\ pc = "raw"
    /\ raw_df # <<>>
    /\ processed' = calculate_metrics(WithSymbol(raw_df, tickers[1]))
    /\ pc' = "metrics"
    /\ UNCHANGED <<opt_type, single_ticker, max_tickers, user_settings, sort_by, idx,
                   results, fetched, clock, warnings, captions, outcome, table,
                   analysis, raw_df, filtered>>

\* filtered = apply_filters(processed, user_settings), on a computed frame or on
\* the empty one
ApplyFilters ==
    /\ \/ pc = "metrics"
       \/ pc = "raw" /\ raw_df = <<>>
    /\ filtered' = apply_filters(processed, user_settings)
    /\ pc' = "filtered"
    /\ UNCHANGED <<opt_type, single_ticker, max_tickers, user_settings, sort_by, idx,
                   results, fetched, clock, warnings, captions, outcome, table,
                   analysis, raw_df, processed>>

NextFn == CalcMetrics \/ ApplyFilters

SpecFn == InitFn /\ [][NextFn]_vars

(***************************************************************************)
(* Properties.                                                             *)
(***************************************************************************)

\* the four predicates of the filter contract, on one row
Passes(r, s) ==
    /\ r.mid >= s.min_bid
    /\ s.min_dte <= r.DTE /\ r.DTE <= s.max_dte
    /\ s.min_delta <= Abs(r.delta) /\ Abs(r.delta) <= s.max_delta
    /\ r.capital_required <= s.max_capital

InFrame(r, df) == \E j \in 1..Len(df) : df[j] = r

\* C1: apply_filters returns exactly the rows of its input that satisfy all four
\* predicates: every output row is an input row that passes, every input row
\* left out fails at least one predicate, as many rows come out as pass, and
\* the empty frame gives the empty frame.
C1_FilterExact ==
    pc = "filtered" =>
        /\ \A j \in 1..Len(filtered) :
              InFrame(filtered[j], processed) /\ Passes(filtered[j], user_settings)
        /\ \A i \in 1..Len(processed) :
              ~InFrame(processed[i], filtered) => ~Passes(processed[i], user_settings)
        /\ Len(filtered) =
              Cardinality({i \in 1..Len(processed) : Passes(processed[i], user_settings)})
        /\ (processed = <<>> => filtered = <<>>)

C1_Witness ==
    /\ pc = "filtered"
    /\ Len(processed) = 2
    /\ Len(filtered) = 1

\* C2: a fetch failure for one ticker never aborts the run: no exception leaves
\* the run, and a run that has left the loop has fetched every ticker of its
\* scan list and ended with a result set.
C2_FetchFailureNeverAborts ==
    /\ outcome # "exception"
    /\ pc \in {"idle", "loop", "done"}
    /\ (pc = "done" /\ outcome # "not_in_universe" => Len(fetched) = Len(ScanList))

\* C3: a run over fetched tickers whose result set is empty shows the
\* "no candidates" outcome, whether no ticker returned data or some did and no
\* row passed the filters.
C3_EmptyResultExplained ==
    (pc = "done" /\ outcome # "not_in_universe" /\ concat(results) = <<>>)
        => outcome = "no_candidates"

\* C4: no row with |delta| > 1 or with a non-positive strike is ever in the
\* result set of a run.
C4_NoInvalidRowInResults ==
    \A i \in 1..Len(results) : \A j \in 1..Len(results[i]) :
        /\ Abs(results[i][j].delta) <= 100
        /\ results[i][j].strike > 0
        /\ results[i][j].capital_required > 0

\* C5: a row whose DTE is <= 0 never carries an annualized_yield computed by
\* dividing by its DTE: its yield is the undefined value.
C5_NoYieldFromNonPositiveDTE ==
    \A i \in 1..Len(processed) :
        processed[i].DTE <= 0 => IsNaN(processed[i].annualized_yield)

\* C6: every processed row has breakeven strike - mid when its own type is put
\* and strike + mid when its own type is call.
C6_BreakevenByRowType ==
    \A i \in 1..Len(processed) :
        LET r == processed[i]
        IN  r.breakeven = IF r.type = "put" THEN r.strike - r.mid ELSE r.strike + r.mid

\* C7: the displayed table holds the rows of the result set ordered by the
\* chosen key: non-decreasing for breakeven, DTE and capital_required,
\* non-increasing for annualized_yield, yield_per_dollar, oi and volume.
C7_TableOrdered ==
    outcome = "table" =>
        /\ Len(table) = Len(concat(results))
        /\ \A i \in 1..Len(table) : InFrame(table[i], DisplayFrame(concat(results)))
        /\ \A i \in 1..(Len(table) - 1) :
              /\ sort_by \in {"breakeven", "DTE", "capital_required"}
                    => FLeq(Key(table[i], sort_by), Key(table[i + 1], sort_by))
              /\ sort_by \in {"annualized_yield", "yield_per_dollar", "oi", "volume"}
                    => FLeq(Key(table[i + 1], sort_by), Key(table[i], sort_by))

C7_Witness ==
    /\ outcome = "table"
    /\ sort_by = "volume"
    /\ Len(table) >= 3
    /\ FLess(Key(table[Len(table)], sort_by), Key(table[1], sort_by))

\* C8: tickers are fetched one after the other in scan-list order, and at least
\* the inter-request delay separates each fetch from the one before it,
\* whatever the earlier fetch returned.
C8_InterRequestDelay ==
    /\ Len(fetched) <= Len(ScanList)
    /\ \A j \in 1..Len(fetched) : fetched[j].symbol = ScanList[j]
    /\ \A j \in 2..Len(fetched) : fetched[j].at - fetched[j - 1].at >= SLEEP

C8_Witness ==
    /\ Len(fetched) >= 4
    /\ warnings = <<tickers[1]>>
    /\ captions = <<tickers[1], tickers[2]>>
    /\ Len(results) >= 1

FetchedSymbols == [j \in 1..Len(fetched) |-> fetched[j].symbol]

IsPrefix(s, t) == Len(s) <= Len(t) /\ \A j \in 1..Len(s) : s[j] = t[j]

\* the first n symbols of the universe, in universe order
FirstOfUniverse(n) == [j \in 1..(IF n < NumTickers THEN n ELSE NumTickers) |-> tickers[j]]

\* C9: with no ticker named, the tickers fetched are the first max_tickers
\* symbols of the universe in universe order; with a member of the universe
\* named, the one named ticker; with a non-member named, nothing is fetched and
\* the run has no result rows.
C9_ScanSelection ==
    /\ single_ticker = "" =>
          /\ IsPrefix(FetchedSymbols, FirstOfUniverse(max_tickers))
          /\ (pc = "done" => FetchedSymbols = FirstOfUniverse(max_tickers))
    /\ (single_ticker # "" /\ InUniverse(single_ticker)) =>
          /\ IsPrefix(FetchedSymbols, <<single_ticker>>)
          /\ (pc = "done" => FetchedSymbols = <<single_ticker>>)
    /\ (single_ticker # "" /\ ~InUniverse(single_ticker)) =>
          /\ fetched = <<>>
          /\ results = <<>>
          /\ table = <<>>

C9_Witness ==
    /\ pc = "done"
    /\ single_ticker = ""
    /\ Len(fetched) = MIN_MAX_TICKERS
    /\ Len(fetched) < Len(tickers)

RowId(r) == <<r.symbol, r.contract>>

\* C10: the contracts given a trade analysis are the first five rows of the
\* displayed table.
C10_AnalysisIsTopOfTable ==
    outcome = "table" =>
        {RowId(analysis[i]) : i \in 1..Len(analysis)}
            = {RowId(table[i]) : i \in 1..Len(head(table, TOP_N))}

====
